---- MODULE Spec2Model ----
(***************************************************************************)
(* The trubrics command line: `trubrics init` writes the configuration    *)
(* file .trubrics_config.json, `trubrics run` loads it, imports the user's *)
(* run script, iterates the validation results, prints one status line    *)
(* per result, saves the report locally and, with --save-ui, remotely.    *)
(* Source: src/trubrics/cli/main.py.                                      *)
(*                                                                         *)
(* A dict with string keys is a set of <<key, value>> pairs with at most   *)
(* one pair per key. A string whose length matters is a sequence of        *)
(* one-character strings.                                                  *)
(***************************************************************************)
EXTENDS Integers, Sequences, FiniteSets, TLC

VARIABLES
    config_file,        \* disk: <config dir>/.trubrics_config.json
    report_file,        \* disk: <output path>/<output file name>
    cmd,                \* the command of the current process: none, init, run
    pc,                 \* the last point of the command that was completed
    status,             \* the process: idle, running, exited (0), aborted (non-zero), crashed
    error,              \* the exception that ended the command, "" if none
    trubrics_api_url,   \* init: --trubrics-api-url
    trubric_run_path,   \* init: --trubric-run-path; run: trubrics_config["trubric_run_path"]
    res,                \* init: the dict that is written as the config
    save_ui,            \* run: --save-ui
    trubrics_config,    \* run: the loaded config dict
    tc,                 \* run: the imported module
    executed,           \* run: how many validations run_trubric has executed
    iter,               \* run: the results of all_validation_results not yet iterated
    validations,        \* run: the list `validations`
    status_lines,       \* run: the per-validation lines echoed so far
    notices,            \* the other messages echoed so far
    net_calls           \* the remote calls made by the current command

disk == <<config_file, report_file>>
proc == <<cmd, pc, status, error>>
init_locals == <<trubrics_api_url, res>>
run_locals == <<save_ui, trubrics_config, tc, executed, iter, validations, status_lines>>
vars == <<config_file, report_file, cmd, pc, status, error, trubrics_api_url,
          trubric_run_path, res, save_ui, trubrics_config, tc, executed, iter,
          validations, status_lines, notices, net_calls>>

----------------------------------------------------------------------------
(* Bounds *)

\* the longest sequence of validation results a run script yields
MaxValidations == 2
\* the length of the long validation_type among the modelled results
LongKindLen == 95

----------------------------------------------------------------------------
(* Dicts *)

Keys(d) == {p[1] : p \in d}
Get(d, k) == (CHOOSE p \in d : p[1] = k)[2]
\* d[k] = v
SetKey(d, k, v) == {p \in d : p[1] # k} \cup {<<k, v>>}

\* n * c for a one-character string c: the empty string when n <= 0
Times(n, c) == IF n > 0 THEN [i \in 1..n |-> c] ELSE <<>>

RECURSIVE SeqsUpTo(_, _)
SeqsUpTo(S, n) ==
    IF n = 0 THEN {<<>>}
    ELSE LET shorter == SeqsUpTo(S, n - 1)
         IN  shorter \cup {Append(s, x) : s \in {t \in shorter : Len(t) = n - 1}, x \in S}

----------------------------------------------------------------------------
(* Disk files *)

\* no file at the path
Absent == [state |-> "absent", text |-> {}]
\* open(path, "w"): the file exists and is empty until the text is written
Truncated == [state |-> "truncated", text |-> {}]
\* file.write(json.dumps(d, indent=4)), closed
Dumps(d) == [state |-> "complete", text |-> d]
\* json.load(file) of a complete file
Loads(f) == f.text

NoReport == [state |-> "absent", trubric |-> "", validations |-> <<>>]

----------------------------------------------------------------------------
(* The environment of `init` *)

None == "None"
ApiUrls == {None, "", "http://manager"}
UserIds == {"u1"}
RunPaths == {"run.py", "gone.py", "run.txt"}
\* Path(p).exists()
PathExists(p) == p \in {"run.py", "run.txt"}
\* p.endswith(".py")
EndsWithPy(p) == p \in {"run.py", "gone.py"}
\* `if trubrics_api_url:`
Truthy(s) == s \notin {None, ""}

\* the JSON bodies GET {url}/api/is_user/{uid} can return
Responses(uid) ==
    { {},
      {<<"user_id", uid>>},
      {<<"msg", "welcome">>, <<"user_id", uid>>},
      {<<"is_user", "false">>, <<"msg", "unknown user">>},
      {<<"is_user", "false">>},
      {<<"is_user", "false">>, <<"msg", "unknown user">>, <<"user_id", uid>>} }

\* `"is_user" in res.keys()`
Rejected_always_accepts(r) == FALSE
Rejected(r) == "is_user" \in Keys(r)

----------------------------------------------------------------------------
(* The environment of `run`: the user's run script and its results *)

\* the width the label is padded to
Width == 100

Lowers == <<"a", "e", "g", "i", "n", "o", "r", "w">>
Uppers == <<"A", "E", "G", "I", "N", "O", "R", "W">>
UpperChar(c) ==
    IF \E i \in 1..Len(Lowers) : Lowers[i] = c
    THEN Uppers[CHOOSE i \in 1..Len(Lowers) : Lowers[i] = c]
    ELSE c
\* str.upper()
Upper(s) == [i \in 1..Len(s) |-> UpperChar(s[i])]

ShortKind == <<"v", "1">>
LongKind == Times(LongKindLen, "x")
SevError == <<"e", "r", "r", "o", "r">>
SevWarning == <<"w", "a", "r", "n", "i", "n", "g">>
PASSED == <<"P", "A", "S", "S", "E", "D">>
FAILED == <<"F", "A", "I", "L", "E", "D">>

Result(k, s, o) == [validation_type |-> k, severity |-> s, outcome |-> o]
\* the validation results a script can yield
Outcomes ==
    { Result(ShortKind, SevError, "pass"),
      Result(ShortKind, SevWarning, "fail"),
      Result(LongKind, SevError, "fail"),
      Result(ShortKind, SevWarning, "pass") }
ResultSeqs == SeqsUpTo(Outcomes, MaxValidations)
DefaultResults == <<Result(ShortKind, SevError, "pass"), Result(ShortKind, SevWarning, "fail")>>

\* A run script as `run` sees it: whether the file can be imported, whether it
\* sets RUN_CONTEXT and to what, which other top-level attributes it sets, and
\* the results run_trubric yields for its RUN_CONTEXT.
Module(ex, rc, tr, dc, mtc, rtc, rs) ==
    [exists |-> ex, has_RUN_CONTEXT |-> rc, is_TrubricRun |-> tr, has_data_context |-> dc,
     trubric_context |-> mtc, run_trubric_context |-> rtc, results |-> rs]
NoModule == Module(FALSE, FALSE, FALSE, FALSE, "none", "none", <<>>)
Modules ==
    {Module(TRUE, TRUE, TRUE, TRUE, "tA", "tA", rs) : rs \in ResultSeqs}
    \cup {Module(TRUE, TRUE, TRUE, TRUE, "none", "tA", rs) : rs \in ResultSeqs}
    \cup { Module(FALSE, FALSE, FALSE, FALSE, "none", "none", DefaultResults),
           Module(TRUE, FALSE, FALSE, TRUE, "tA", "none", DefaultResults),
           Module(TRUE, TRUE, FALSE, TRUE, "tA", "none", DefaultResults),
           Module(TRUE, TRUE, TRUE, FALSE, "tA", "tA", DefaultResults),
           Module(TRUE, TRUE, TRUE, TRUE, "tA", "tB", DefaultResults) }

\* lines 58-64: the exception raised for the module's RUN_CONTEXT, "" if none
EntryPointError_unchecked(m) == ""
EntryPointError(m) ==
    IF m.has_RUN_CONTEXT
    THEN IF m.is_TrubricRun THEN "" ELSE "TypeError"
    ELSE "AttributeError"

\* line 76: validations.append(validation_result)
Collect_passed_only(vs, r) == IF r.outcome = "pass" THEN Append(vs, r) ELSE vs
Collect(vs, r) == Append(vs, r)

\* line 78
MessageStart(r) == r.validation_type \o <<" ", "-", " ">> \o Upper(r.severity)
\* line 79
CompletedDots(message_start) == Times(Width - Len(message_start), ".")
\* lines 80-83, without the terminal styling
Ending(r) == IF r.outcome = "pass" THEN PASSED ELSE FAILED
\* line 84
Message(r) == MessageStart(r) \o CompletedDots(MessageStart(r)) \o Ending(r)

\* lines 88-90: the module's trubric_context with its validations replaced, as saved
NewTrubricContext_of_run_context(m, vs) ==
    [state |-> "complete", trubric |-> m.run_trubric_context, validations |-> vs]
NewTrubricContext(m, vs) ==
    [state |-> "complete", trubric |-> m.trubric_context, validations |-> vs]

\* what save_local (line 90) and save_ui (line 95) can do: write or send the
\* report, or raise on an I/O or transport failure
SaveLocalOutcomes == {"saved", "PersistenceError"}
SaveUiOutcomes == {"saved", "RemoteUnavailableError"}

\* line 94: `"user_id" in trubrics_config.keys()`
\* `if trubrics_config:` instead of the key test
HasUserId_any_config(config) == config # {}
HasUserId(config) == "user_id" \in Keys(config)

----------------------------------------------------------------------------
Init ==
    /\ config_file = Absent
    /\ report_file = NoReport
    /\ cmd = "none"
    /\ pc = "none"
    /\ status = "idle"
    /\ error = ""
    /\ trubrics_api_url = None
    /\ trubric_run_path = ""
    /\ res = {}
    /\ save_ui = FALSE
    /\ trubrics_config = {}
    /\ tc = NoModule
    /\ executed = 0
    /\ iter = <<>>
    /\ validations = <<>>
    /\ status_lines = <<>>
    /\ notices = <<>>
    /\ net_calls = <<>>

----------------------------------------------------------------------------
(* Starting a command and ending it with an exception *)

NotRunning == status # "running"

\* a fresh process: no locals, nothing echoed, no remote call made
Fresh(c, start) ==
    /\ cmd' = c
    /\ pc' = start
    /\ status' = "running"
    /\ error' = ""
    /\ notices' = <<>>
    /\ net_calls' = <<>>
    /\ res' = {}
    /\ trubrics_config' = {}
    /\ tc' = NoModule
    /\ executed' = 0
    /\ iter' = <<>>
    /\ validations' = <<>>
    /\ status_lines' = <<>>

\* an uncaught exception: the command ends where it is, with a non-zero exit
Raise(e) ==
    /\ status' = "aborted"
    /\ error' = e
    /\ UNCHANGED <<cmd, pc>>

----------------------------------------------------------------------------
(* trubrics init, lines 106-153 *)

InitStart ==
    /\ NotRunning
    /\ \E url \in ApiUrls, path \in RunPaths :
        /\ trubrics_api_url' = url
        /\ trubric_run_path' = path
    /\ save_ui' = FALSE
    /\ Fresh("init", "init_begin")
    /\ UNCHANGED disk

\* lines 118-141: the handshake with the trubrics manager, when a url is given
InitHandshake ==
    /\ cmd = "init" /\ status = "running" /\ pc = "init_begin"
    /\ IF Truthy(trubrics_api_url)
       THEN \E uid \in UserIds :
            /\ net_calls' = Append(net_calls, <<"is_user", trubrics_api_url, uid>>)
            /\ \/ \* make_request or json.loads raises
                  /\ Raise("RequestError")
                  /\ UNCHANGED <<res, notices>>
               \/ \E response \in Responses(uid) :
                  IF Rejected(response)
                  THEN /\ res' = response
                       /\ IF "msg" \in Keys(response)
                          THEN /\ notices' = Append(notices, Get(response, "msg"))
                               /\ Raise("Abort")
                          ELSE /\ notices' = notices
                               /\ Raise("KeyError")
                  ELSE /\ notices' = Append(notices, "authenticated")
                       /\ res' = SetKey(response, "api_url", trubrics_api_url)
                       /\ pc' = "init_res_set"
                       /\ UNCHANGED <<cmd, status, error>>
       ELSE /\ notices' = Append(notices, "not authenticated")
            /\ res' = {}
            /\ pc' = "init_res_set"
            /\ UNCHANGED <<cmd, status, error, net_calls>>
    /\ UNCHANGED <<disk, trubrics_api_url, trubric_run_path, run_locals>>

\* lines 143-146
InitSetRunPath ==
    /\ cmd = "init" /\ status = "running" /\ pc = "init_res_set"
    /\ IF ~PathExists(trubric_run_path) \/ ~EndsWithPy(trubric_run_path)
       THEN /\ Raise("MissingTrubricRunFileError")
            /\ res' = res
       ELSE /\ res' = SetKey(res, "trubric_run_path", trubric_run_path)
            /\ pc' = "init_path_set"
            /\ UNCHANGED <<cmd, status, error>>
    /\ UNCHANGED <<disk, trubrics_api_url, trubric_run_path, run_locals, notices, net_calls>>

\* lines 148-152: rprint(res), then open(..., "w") truncates the config file in place
InitOpen ==
    /\ cmd = "init" /\ status = "running" /\ pc = "init_path_set"
    /\ notices' = Append(notices, "config printed")
    /\ config_file' = Truncated
    /\ pc' = "init_opened"
    /\ UNCHANGED <<report_file, cmd, status, error, init_locals, trubric_run_path,
                   run_locals, net_calls>>

\* line 153 and the end of the with block: the text reaches the file, init returns
InitWrite ==
    /\ cmd = "init" /\ status = "running" /\ pc = "init_opened"
    /\ config_file' = Dumps(res)
    /\ pc' = "init_done"
    /\ status' = "exited"
    /\ UNCHANGED <<report_file, cmd, error, init_locals, trubric_run_path,
                   run_locals, notices, net_calls>>

\* the init process is killed (power loss, SIGKILL) wherever it is; the disk stays
InitCrash ==
    /\ cmd = "init" /\ status = "running"
    /\ status' = "crashed"
    /\ UNCHANGED <<disk, cmd, pc, error, init_locals, trubric_run_path, run_locals,
                   notices, net_calls>>

----------------------------------------------------------------------------
(* trubrics run, lines 17-103 *)

RunStart ==
    /\ NotRunning
    /\ save_ui' \in BOOLEAN
    /\ trubrics_api_url' = None
    /\ trubric_run_path' = ""
    /\ Fresh("run", "run_begin")
    /\ UNCHANGED disk

\* lines 47-55
RunLoadConfig ==
    /\ cmd = "run" /\ status = "running" /\ pc = "run_begin"
    /\ IF config_file.state = "absent"
       THEN /\ Raise("MissingConfigPathError")
            /\ UNCHANGED <<trubrics_config, trubric_run_path>>
       ELSE IF config_file.state = "truncated"
       THEN \* json.load of an empty file
            /\ Raise("JSONDecodeError")
            /\ UNCHANGED <<trubrics_config, trubric_run_path>>
       ELSE /\ trubrics_config' = Loads(config_file)
            /\ IF "trubric_run_path" \in Keys(Loads(config_file))
               THEN /\ trubric_run_path' = Get(Loads(config_file), "trubric_run_path")
                    /\ pc' = "config_loaded"
                    /\ UNCHANGED <<cmd, status, error>>
               ELSE /\ Raise("KeyError")
                    /\ trubric_run_path' = trubric_run_path
    /\ UNCHANGED <<disk, init_locals, save_ui, tc, executed, iter, validations,
                   status_lines, notices, net_calls>>

\* lines 57-64: the script at trubric_run_path is imported and RUN_CONTEXT checked
RunImportModule ==
    /\ cmd = "run" /\ status = "running" /\ pc = "config_loaded"
    /\ \E m \in Modules :
        IF ~m.exists
        THEN /\ Raise("FileNotFoundError")
             /\ tc' = tc
        ELSE /\ tc' = m
             /\ IF EntryPointError(m) # ""
                THEN Raise(EntryPointError(m))
                ELSE /\ pc' = "script_loaded"
                     /\ UNCHANGED <<cmd, status, error>>
    /\ UNCHANGED <<disk, init_locals, trubric_run_path, save_ui, trubrics_config,
                   executed, iter, validations, status_lines, notices, net_calls>>

\* lines 66-74: the header needs tc.data_context; run_trubric yields the results
RunTrubric ==
    /\ cmd = "run" /\ status = "running" /\ pc = "script_loaded"
    /\ IF ~tc.has_data_context
       THEN /\ Raise("AttributeError")
            /\ UNCHANGED <<executed, iter, notices>>
       ELSE /\ notices' = Append(notices, "running trubric")
            /\ executed' = Len(tc.results)
            /\ iter' = tc.results
            /\ pc' = "executing"
            /\ UNCHANGED <<cmd, status, error>>
    /\ validations' = <<>>
    /\ UNCHANGED <<disk, init_locals, trubric_run_path, save_ui, trubrics_config, tc,
                   status_lines, net_calls>>

\* lines 75-85: one iteration of the loop
RunLoop ==
    /\ cmd = "run" /\ status = "running" /\ pc = "executing"
    /\ iter # <<>>
    /\ validations' = Collect(validations, Head(iter))
    /\ status_lines' = Append(status_lines, Message(Head(iter)))
    /\ iter' = Tail(iter)
    /\ UNCHANGED <<disk, proc, init_locals, trubric_run_path, save_ui, trubrics_config,
                   tc, executed, notices, net_calls>>

\* lines 87-90: after the loop
RunSaveLocal ==
    /\ cmd = "run" /\ status = "running" /\ pc = "executing"
    /\ iter = <<>>
    /\ IF tc.trubric_context = "none"
       THEN /\ Raise("AttributeError")
            /\ report_file' = report_file
       ELSE \E outcome \in SaveLocalOutcomes :
            IF outcome = "saved"
            THEN /\ report_file' = NewTrubricContext(tc, validations)
                 /\ pc' = "local_saved"
                 /\ UNCHANGED <<cmd, status, error>>
            ELSE /\ Raise(outcome)
                 /\ report_file' = report_file
    /\ UNCHANGED <<config_file, init_locals, trubric_run_path, run_locals, notices,
                   net_calls>>

\* the remote save placed before the local save
RunSaveUi_before_local ==
    /\ cmd = "run" /\ status = "running" /\ pc = "executing"
    /\ iter = <<>>
    /\ save_ui /\ HasUserId(trubrics_config) /\ "api_url" \in Keys(trubrics_config)
    /\ net_calls' = Append(net_calls, <<"save_ui", Get(trubrics_config, "api_url"),
                                        Get(trubrics_config, "user_id")>>)
    /\ UNCHANGED <<disk, proc, init_locals, trubric_run_path, run_locals, notices>>
\* lines 92-103
RunSaveUi ==
    /\ cmd = "run" /\ status = "running" /\ pc = "local_saved"
    /\ IF save_ui
       THEN IF HasUserId(trubrics_config)
            THEN IF "api_url" \in Keys(trubrics_config) /\ "user_id" \in Keys(trubrics_config)
                 THEN /\ net_calls' = Append(net_calls,
                             <<"save_ui", Get(trubrics_config, "api_url"),
                               Get(trubrics_config, "user_id")>>)
                      /\ notices' = notices
                      /\ \E outcome \in SaveUiOutcomes :
                            IF outcome = "saved"
                            THEN /\ pc' = "remote_saved"
                                 /\ status' = "exited"
                                 /\ UNCHANGED <<cmd, error>>
                            ELSE \* the call is in no try block: the exception ends run
                                 /\ pc' = "remote_failed"
                                 /\ status' = "aborted"
                                 /\ error' = outcome
                                 /\ cmd' = cmd
                 ELSE /\ Raise("KeyError")
                      /\ UNCHANGED <<net_calls, notices>>
            ELSE /\ notices' = Append(notices, "ERROR: You must authenticate")
                 /\ pc' = "remote_skipped"
                 /\ status' = "exited"
                 /\ UNCHANGED <<cmd, error, net_calls>>
       ELSE /\ pc' = "remote_skipped"
            /\ status' = "exited"
            /\ UNCHANGED <<cmd, error, net_calls, notices>>
    /\ UNCHANGED <<disk, init_locals, trubric_run_path, run_locals>>

----------------------------------------------------------------------------
Next ==
    \/ InitStart
    \/ InitHandshake
    \/ InitSetRunPath
    \/ InitOpen
    \/ InitWrite
    \/ InitCrash
    \/ RunStart
    \/ RunLoadConfig
    \/ RunImportModule
    \/ RunTrubric
    \/ RunLoop
    \/ RunSaveLocal
    \/ RunSaveUi

Spec == Init /\ [][Next]_vars
\* a started command keeps executing: the remote-save step of a run is taken
FairSpec == Spec /\ WF_vars(RunSaveUi)

----------------------------------------------------------------------------
(* Properties *)

InRun == cmd = "run"
PastLocalSave == pc \in {"local_saved", "remote_saved", "remote_skipped", "remote_failed"}
Terminal == pc \in {"remote_saved", "remote_skipped", "remote_failed"}
Has(seq, x) == \E i \in 1..Len(seq) : seq[i] = x
SavedThisRun ==
    /\ report_file.state = "complete"
    /\ report_file.validations = validations

\* C1: in a run with --save-ui and a remote-enabled config, a transport failure
\* of the remote save is not fatal: it is reported as a warning, the run exits
\* successfully in REMOTE_FAILED, and the local report stays in place.
C1_RemoteFailureNotFatal ==
    (InRun /\ pc = "remote_failed") =>
        /\ status = "exited"
        /\ error = ""
        /\ Has(notices, "WARNING: remote save failed")
        /\ SavedThisRun

\* C2: with --save-ui and a config without user_id (no identity), run never
\* makes the remote save call; it prints the error message, does not abort at
\* the remote-save step, and the local report has been written.
C2_LocalOnlySkipsRemote ==
    (InRun /\ save_ui /\ pc # "run_begin" /\ "user_id" \notin Keys(trubrics_config)) =>
        /\ net_calls = <<>>
        /\ pc \notin {"remote_saved", "remote_failed"}
        /\ PastLocalSave => (status # "aborted" /\ SavedThisRun)
        /\ (status # "running" /\ PastLocalSave) =>
              /\ pc = "remote_skipped"
              /\ status = "exited"
              /\ Has(notices, "ERROR: You must authenticate")
C2_Witness ==
    /\ InRun /\ save_ui /\ pc = "remote_skipped"
    /\ Keys(trubrics_config) = {"trubric_run_path"}
    /\ Len(validations) = MaxValidations
    /\ SavedThisRun

C3_State ==
    (cmd = "init" /\ "is_user" \in Keys(res)) =>
        /\ status = "aborted"
        /\ pc = "init_begin"
        /\ error \in {"Abort", "KeyError"}
C3_Step ==
    (cmd' = "init" /\ "is_user" \in Keys(res')) => config_file' = config_file
\* C3: when the handshake response of init has an is_user key, init aborts with
\* a non-zero exit and no step of it writes the config file, so the file on
\* disk is what it was before the command.
C3_RejectionWritesNothing == []C3_State /\ [][C3_Step]_vars
C3_Witness ==
    /\ cmd = "init" /\ status = "aborted" /\ error = "Abort"
    /\ "is_user" \in Keys(res)
    /\ config_file.state = "complete"
    /\ "api_url" \notin Keys(config_file.text)

\* C4: every config file written by init has user_id iff it has api_url, and
\* init without a remote url writes a config whose only key is trubric_run_path.
C4_LocalOnlyOrRemoteEnabled ==
    /\ config_file.state = "complete" =>
          ("user_id" \in Keys(config_file.text) <=> "api_url" \in Keys(config_file.text))
    /\ (cmd = "init" /\ pc = "init_done" /\ ~Truthy(trubrics_api_url)) =>
          Keys(config_file.text) = {"trubric_run_path"}

\* the line echoed for result r: it starts with the validation type and ends
\* with the marker of the outcome
LineOf(line, r) ==
    /\ Len(line) >= Len(r.validation_type) + Len(PASSED)
    /\ SubSeq(line, 1, Len(r.validation_type)) = r.validation_type
    /\ SubSeq(line, Len(line) - Len(PASSED) + 1, Len(line))
          = (IF r.outcome = "pass" THEN PASSED ELSE FAILED)
\* C5: for a run whose executor yields N outcomes, the lines printed and the
\* outcomes collected are the outcomes iterated so far, in the executor's
\* order, and the saved report holds exactly the N outcomes in that order,
\* whatever their pass/fail status.
C5_OutcomesInOrder ==
    (InRun /\ pc \in {"executing", "local_saved", "remote_saved", "remote_skipped",
                      "remote_failed"}) =>
        /\ validations \o iter = tc.results
        /\ Len(status_lines) = Len(validations)
        /\ \A i \in 1..Len(status_lines) : LineOf(status_lines[i], tc.results[i])
        /\ PastLocalSave =>
              /\ iter = <<>>
              /\ report_file.validations = tc.results
              /\ Len(status_lines) = Len(tc.results)
C5_Witness ==
    /\ InRun /\ PastLocalSave
    /\ Len(tc.results) = MaxValidations
    /\ tc.results[1].outcome = "fail"
    /\ tc.results[MaxValidations].outcome = "pass"
    /\ report_file.validations = tc.results

C6_State ==
    /\ (InRun /\ pc \in {"run_begin", "config_loaded"}) =>
          /\ executed = 0
          /\ validations = <<>>
          /\ status_lines = <<>>
          /\ net_calls = <<>>
    /\ (InRun /\ config_file.state = "absent") =>
          /\ pc = "run_begin"
          /\ status # "running" => (status = "aborted" /\ error = "MissingConfigPathError")
    /\ (InRun /\ tc # NoModule /\ ~tc.has_RUN_CONTEXT) =>
          (pc = "config_loaded" /\ status = "aborted" /\ error = "AttributeError")
    /\ (InRun /\ tc # NoModule /\ tc.has_RUN_CONTEXT /\ ~tc.is_TrubricRun) =>
          (pc = "config_loaded" /\ status = "aborted" /\ error = "TypeError")
C6_Step ==
    (cmd' = "run" /\ pc' \in {"run_begin", "config_loaded"}) => report_file' = report_file
\* C6: a run whose config file is missing, or whose script has no RUN_CONTEXT
\* or one that is not a TrubricRun, aborts with the corresponding error before
\* any validation is executed, any status line printed, any report written or
\* any remote call made.
C6_LoadErrorsAbort == []C6_State /\ [][C6_Step]_vars
C6_Witness ==
    /\ InRun /\ status = "aborted" /\ error = "AttributeError" /\ pc = "config_loaded"
    /\ tc.exists /\ ~tc.has_RUN_CONTEXT /\ tc.results # <<>>
    /\ report_file.state = "complete"

PhaseOrder ==
    { <<"run_begin", "config_loaded">>, <<"config_loaded", "script_loaded">>,
      <<"script_loaded", "executing">>, <<"executing", "local_saved">>,
      <<"local_saved", "remote_saved">>, <<"local_saved", "remote_skipped">>,
      <<"local_saved", "remote_failed">> }
C7_Step ==
    (InRun /\ status = "running") =>
        /\ pc' # pc => <<pc, pc'>> \in PhaseOrder
        /\ net_calls' # net_calls => (pc = "local_saved" /\ SavedThisRun)
        /\ report_file' # report_file => (pc = "executing" /\ pc' = "local_saved")
C7_State ==
    InRun =>
        /\ status = "exited" => Terminal
        /\ (status = "aborted" /\ PastLocalSave) => Terminal
        /\ Terminal => status # "running"
\* C7: a run moves through CONFIG_LOADED, SCRIPT_LOADED, EXECUTING, LOCAL_SAVED
\* in that order and then into one of REMOTE_SAVED, REMOTE_SKIPPED and
\* REMOTE_FAILED; the remote save is attempted only after the local report is
\* written, and a run that reaches LOCAL_SAVED ends in one of the three.
C7_PhaseOrder ==
    /\ [][C7_Step]_vars
    /\ []C7_State
    /\ (InRun /\ pc = "local_saved") ~> (InRun /\ Terminal)
C7_Witness ==
    /\ InRun /\ pc = "remote_saved" /\ status = "exited"
    /\ net_calls # <<>>
    /\ Len(validations) = MaxValidations

\* C8: a crash of init at any point of the config save leaves a config file
\* that a later load reads as a complete record, never an empty or partial one.
C8_AtomicConfigSave ==
    (cmd = "init" /\ status = "crashed") => config_file.state # "truncated"

\* C9: for every status line, the label and its padding together are Width
\* characters long, so the PASSED/FAILED marker starts at the same column.
C9_FixedWidth ==
    \A i \in 1..Len(status_lines) : Len(status_lines[i]) - Len(PASSED) = Width

C10_State ==
    InRun =>
        /\ PastLocalSave =>
              /\ tc.has_RUN_CONTEXT /\ tc.is_TrubricRun
              /\ tc.has_data_context
              /\ tc.trubric_context # "none"
              /\ report_file.state = "complete"
              /\ report_file.trubric = tc.trubric_context
              /\ report_file.validations = validations
        /\ (tc # NoModule /\ ~tc.has_data_context) =>
              /\ pc \in {"config_loaded", "script_loaded"}
              /\ executed = 0 /\ status_lines = <<>>
              /\ (pc = "script_loaded" /\ status # "running") =>
                    (status = "aborted" /\ error = "AttributeError")
        /\ (pc = "executing" /\ tc.trubric_context = "none" /\ status # "running") =>
              /\ status = "aborted" /\ error = "AttributeError"
              /\ executed = Len(tc.results)
              /\ Len(status_lines) = Len(tc.results)
              /\ iter = <<>>
C10_Step ==
    (cmd' = "run" /\ report_file' # report_file) =>
        (tc.has_data_context /\ tc.trubric_context # "none")
\* C10: run reaches the local save only for a module that has RUN_CONTEXT,
\* data_context and trubric_context; the report saved is the module's
\* trubric_context with the collected outcomes as its validations; without
\* data_context the run aborts before any validation is executed, without
\* trubric_context after all are executed and printed, and in neither case is
\* a report written.
C10_ModuleAttributes == []C10_State /\ [][C10_Step]_vars
C10_Witness ==
    /\ InRun /\ status = "aborted" /\ error = "AttributeError" /\ pc = "executing"
    /\ tc.trubric_context = "none"
    /\ Len(status_lines) = MaxValidations
    /\ executed = MaxValidations
====
